---- MODULE Spec2Model ----
(***************************************************************************)
(* PDF question-answering backend: the document ingestion pipeline          *)
(* (document/tasks.py, document/services/pdf_processor.py), the per-user    *)
(* FAISS index kept as two files per user                                   *)
(* (document/services/vector_db_service.py), the delete request             *)
(* (document/views.py) and the chat requests (chat/views.py,                *)
(* chat/services/rag_service.py).                                           *)
(*                                                                         *)
(* Spec      : ingestion tasks, delete requests and searches of two users,  *)
(*             interleaved at every access to the database or to an index   *)
(*             file.                                                        *)
(* SpecChunk : PDFProcessor.create_chunks run on bounded page mappings,     *)
(*             one loop iteration per step.                                 *)
(* SpecRag   : ingestion and deletion of one user's two documents with one  *)
(*             ask_question, generate_summary or generate_mindmap request.  *)
(* SpecChat  : ingestion of one document with two ask_question requests on  *)
(*             one session.                                                 *)
(* SpecTask  : the ingestion tasks of two documents, the database raising   *)
(*             in the failure handlers included.                            *)
(***************************************************************************)
EXTENDS Integers, Sequences, FiniteSets, TLC

(* ------------------------------------------------------------------ *)
(* Bounds of the model                                                  *)
(* ------------------------------------------------------------------ *)

\* chunks a document's text yields at most
MaxChunks == 2
\* ingestion tasks and requests that are running at the same time
MaxInFlight == 2
\* delete requests issued
MaxDeletes == 1
\* collaborator and file failures injected, worker kills included
MaxFaults == 1
\* largest top_k asked of search
MaxTopK == 2

\* the uploaded documents, and who uploaded them
Pdfs == {1, 2, 3}
Users == {1, 2}
Owner(p) == IF p = 3 THEN 2 ELSE 1
\* the uploads a run starts from: two documents of one user, or one
\* document of each user
Uploads == {{1, 2}, {1, 3}}

\* chunk texts, and the collaborator's embedding of each (a stub: a fixed
\* function of the text; one-dimensional vectors)
Texts == {"ta", "tb"}
Embed(t) == IF t = "ta" THEN 0 ELSE 1
QueryVectors == {0, 1}

\* squared Euclidean distance (faiss.IndexFlatL2)
L2(a, b) == (a - b) * (a - b)

\* The database gives every chunk a primary key that is never reused; the
\* model names the key of the i-th chunk created for document p.
ChunkId(p, i) == (p - 1) * MaxChunks + i
ChunkIds == {ChunkId(p, i) : p \in Pdfs, i \in 1..MaxChunks}
PdfOf(c) == ((c - 1) \div MaxChunks) + 1
IndexOf(c) == ((c - 1) % MaxChunks)
UserOf(c) == Owner(PdfOf(c))

\* Chunk.vector_id is NULL until add_embeddings sets it
NullVectorId == -1

\* what text extraction followed by create_chunks can hand the pipeline: the
\* texts of the document's chunks, in chunk_index order. A document's text
\* is cut off after any number of chunks up to MaxChunks.
FullText == [i \in 1..MaxChunks |-> IF i % 2 = 1 THEN "ta" ELSE "tb"]
DocTexts == {SubSeq(FullText, 1, n) : n \in 0..MaxChunks}

VARIABLES
    pdf_files,       \* table pdf_files: document id -> row
    chunk_rows,      \* table chunks: chunk id -> row
    index_files,     \* path -> the FAISS index file stored there
    metadata_files,  \* path -> the pickled slot -> chunk id dict stored there
    task,            \* document id -> the locals of its process_pdf_async run
    del,             \* document id -> the locals of its delete_pdf request
    srch,            \* the locals of the search request
    ck,              \* the locals of a create_chunks run
    ask,             \* the locals of the ask_question request
    gen,             \* the locals of the generate_summary / generate_mindmap request
    chat,            \* tables chat_sessions and messages
    ask2             \* the locals of a second ask_question request on the session

vars == <<pdf_files, chunk_rows, index_files, metadata_files, task, del, srch, ck, ask, gen, chat,
          ask2>>


(* ------------------------------------------------------------------ *)
(* Rows, files and small helpers                                        *)
(* ------------------------------------------------------------------ *)

\* a document row that is not in the table
NoPdf == [exists |-> FALSE, status |-> "none", error |-> "none", total_chunks |-> 0]
\* a chunk row that is not in the table
NoChunk == [exists |-> FALSE, text |-> "none", vector_id |-> NullVectorId]
\* a path with no file
NoIndexFile == [exists |-> FALSE, vecs |-> <<>>]
NoMetadataFile == [exists |-> FALSE, map |-> {}]

\* A Python dict int -> int is the set of its <<key, value>> pairs.
DictKeys(d) == {kv[1] : kv \in d}
DictGet(d, k) == (CHOOSE kv \in d : kv[1] = k)[2]
DictPut(d, k, v) == {kv \in d : kv[1] # k} \cup {<<k, v>>}

\* the rows of table chunks a filter selects, in Meta.ordering (pdf,
\* chunk_index), as a sequence of chunk ids
RECURSIVE SortedSeq(_)
SortedSeq(S) ==
    IF S = {} THEN <<>>
    ELSE LET m == CHOOSE x \in S : \A y \in S : x <= y
         IN  <<m>> \o SortedSeq(S \ {m})

ChunksOfPdf(p) == {c \in ChunkIds : chunk_rows[c].exists /\ PdfOf(c) = p}
ChunksOfUser(u) == {c \in ChunkIds : chunk_rows[c].exists /\ UserOf(c) = u}

\* as get_user_index_path, with the user id left out of the file name
shared_index_path(user_id) == 1

\* VectorDBService._get_user_index_path / _get_user_metadata_path: one path
\* per user id (the file names differ, so the two never collide)
get_user_index_path(user_id) == user_id

\* as get_user_metadata_path, with the user id left out of the file name
shared_metadata_path(user_id) == 1

\* VectorDBService._get_user_metadata_path
get_user_metadata_path(user_id) == user_id

Paths == Users

\* as generate_embeddings_batch, the vectors in the reverse order of the texts
generate_embeddings_reversed(texts) ==
    [i \in 1..Len(texts) |-> Embed(texts[Len(texts) + 1 - i])]

\* EmbeddingService.generate_embeddings_batch: model.encode(texts).tolist(),
\* one vector per text in the order of the texts
generate_embeddings_batch(texts) ==
    [i \in 1..Len(texts) |-> Embed(texts[i])]

\* EmbeddingService.embed_chunks: the dict chunk id -> embedding, in the
\* order of the chunks given; here the sequence of its items, each vector
\* tagged with the chunk it was computed from
embed_chunks(ids, textOf) ==
    LET texts == [i \in 1..Len(ids) |-> textOf[ids[i]]]
        embeddings == generate_embeddings_batch(texts)
        n == IF Len(ids) < Len(embeddings) THEN Len(ids) ELSE Len(embeddings)
    IN  [i \in 1..n |-> [id |-> ids[i], vec |-> embeddings[i]]]

\* the in-memory state of one process_pdf_async run before it starts
TaskIdle ==
    [pc |-> "queued", pdf |-> NoPdf, texts |-> <<>>, created |-> 0,
     index |-> <<>>, metadata |-> {}, exc |-> "none",
     embed_calls |-> 0, add_calls |-> 0]

DelIdle == [pc |-> "idle", remaining |-> <<>>]
SrchIdle == [pc |-> "idle", user |-> 0, index |-> <<>>, metadata |-> {},
             query |-> 0, top_k |-> 0, slots |-> <<>>, result |-> <<>>]
CkIdle == [pc |-> "off"]

\* the response dict of ask_question before it is built
NoResponse == [answer |-> "none", sources |-> <<>>, chunk_ids |-> <<>>]
\* the in-memory state of the ask_question request before it arrives;
\* session_id 0 and pdf_ids {} stand for None
AskIdle == [pc |-> "idle", user |-> 0, session_id |-> 0, pdf_ids |-> {},
            chunk_ids |-> <<>>, ordered_chunks |-> <<>>, gen_calls |-> 0,
            response |-> NoResponse]
\* the in-memory state of the generate_summary / generate_mindmap request
GenIdle == [pc |-> "idle", kind |-> "none", user |-> 0, pdf |-> 0,
            chunks |-> <<>>, gen_calls |-> 0, result |-> "none"]
\* chat/models.py: the session of user 1 and its messages in created_at order
SessionOwner == 1
\* a second ask_question request with the same session_id, before it arrives
Ask2Idle == [pc |-> "idle"]
ChatInit == [session |-> [exists |-> TRUE, updated_at |-> 0], messages |-> <<>>]

TaskRunning(p) ==
    task[p].pc \notin {"absent", "queued", "returned", "returned_empty", "not_found",
                       "raised", "crashed"}
DelRunning(p) == del[p].pc \notin {"idle", "done", "not_found", "error"}
SrchRunning == srch.pc # "idle"
AskRunning == ask.pc \notin {"idle", "rejected", "returned", "raised"}
GenRunning == gen.pc \notin {"idle", "rejected", "returned"}

\* the failures injected so far: a collaborator or a file write that raised,
\* a killed worker
Faults ==
    Cardinality({p \in Pdfs : task[p].exc \in {"extract", "embed", "index"}})
    + Cardinality({p \in Pdfs : task[p].pc = "crashed"})
    + Cardinality({p \in Pdfs : del[p].pc = "error"})

Deletes == Cardinality({p \in Pdfs : del[p].pc # "idle"})

InFlight ==
    Cardinality({p \in Pdfs : TaskRunning(p)})
    + Cardinality({p \in Pdfs : DelRunning(p)})
    + (IF SrchRunning \/ AskRunning THEN 1 ELSE 0)
    + (IF GenRunning THEN 1 ELSE 0)

\* views.py 64-74: upload_pdf created a row with status 'pending' for
\* every document of `up` and queued process_pdf_async for it
Uploaded(up) ==
    /\ pdf_files = [p \in Pdfs |->
                      IF p \in up
                      THEN [exists |-> TRUE, status |-> "pending",
                            error |-> "none", total_chunks |-> 0]
                      ELSE NoPdf]
    /\ task = [p \in Pdfs |->
                 IF p \in up THEN TaskIdle ELSE [TaskIdle EXCEPT !.pc = "absent"]]
    /\ chunk_rows = [c \in ChunkIds |-> NoChunk]
    /\ index_files = [f \in Paths |-> NoIndexFile]
    /\ metadata_files = [f \in Paths |-> NoMetadataFile]
    /\ del = [p \in Pdfs |-> DelIdle]
    /\ srch = SrchIdle
    /\ ask = AskIdle
    /\ gen = GenIdle
    /\ chat = ChatInit
    /\ ask2 = Ask2Idle

Init ==
    /\ \E up \in Uploads : Uploaded(up)
    /\ ck = CkIdle

(* ------------------------------------------------------------------ *)
(* VectorDBService: the parts that touch no shared state                *)
(* ------------------------------------------------------------------ *)

\* add_embeddings, lines 92-104 without the Chunk updates: the vectors are
\* appended in the order of the dict, and the i-th chunk id gets the slot
\* current_size + i in the metadata dict
RECURSIVE PutSlots(_, _, _, _)
PutSlots(metadata, current_size, items, i) ==
    IF i > Len(items) THEN metadata
    ELSE PutSlots(DictPut(metadata, current_size + (i - 1), items[i].id),
                  current_size, items, i + 1)

add_local(index, metadata, items) ==
    [index |-> index \o [i \in 1..Len(items) |-> [vec |-> items[i].vec, of |-> items[i].id]],
     metadata |-> PutSlots(metadata, Len(index), items, 1)]

\* Django's Model.save() of an object with a primary key: UPDATE, and INSERT
\* when no row was updated; every field of the in-memory object is written
model_save(row) == [row EXCEPT !.exists = TRUE]

\* the chunk objects process_and_save_chunks returns, as ids, and their texts
TaskChunkIds(p) == [i \in 1..task[p].created |-> ChunkId(p, i)]
TaskTextOf(p) == [c \in {ChunkId(p, i) : i \in 1..Len(task[p].texts)} |->
                    task[p].texts[IndexOf(c) + 1]]
TaskItems(p) == embed_chunks(TaskChunkIds(p), TaskTextOf(p))

(* ------------------------------------------------------------------ *)
(* process_pdf_async(pdf_id), one action per access to shared state     *)
(* ------------------------------------------------------------------ *)

\* tasks.py 19 and pdf_processor.py 179-180: fetch the row (a missing row
\* ends the task with an error dict), set 'processing' and save
task_start(p) ==
    /\ task[p].pc = "queued"
    /\ InFlight < MaxInFlight
    /\ IF pdf_files[p].exists
       THEN LET obj == [pdf_files[p] EXCEPT !.status = "processing"]
            IN  /\ pdf_files' = [pdf_files EXCEPT ![p] = model_save(obj)]
                /\ task' = [task EXCEPT ![p].pc = "extract", ![p].pdf = obj]
       ELSE /\ task' = [task EXCEPT ![p].pc = "not_found"]
            /\ UNCHANGED pdf_files
    /\ UNCHANGED <<chunk_rows, index_files, metadata_files, del, srch, ck, ask, gen, chat, ask2>>

\* pdf_processor.py 183-187: extract_text_from_pdf raises, or the pages are
\* chunked by create_chunks
psc_extract_raises(p) ==
    /\ Faults < MaxFaults
    /\ task[p].pc = "extract"
    /\ task' = [task EXCEPT ![p].pc = "except_processor", ![p].exc = "extract"]
    /\ UNCHANGED <<pdf_files, chunk_rows, index_files, metadata_files, del, srch, ck, ask, gen, chat, ask2>>

psc_extract(p) ==
    /\ task[p].pc = "extract"
    /\ \E texts \in DocTexts :
          task' = [task EXCEPT ![p].pc = IF texts = <<>> THEN "save_completed"
                                         ELSE "create",
                               ![p].texts = texts]
    /\ UNCHANGED <<pdf_files, chunk_rows, index_files, metadata_files, del, srch, ck, ask, gen, chat, ask2>>

\* pdf_processor.py 191-202: Chunk.objects.create for the next chunk; the
\* insert violates the foreign key when the document row is gone
psc_create_chunk(p) ==
    /\ task[p].pc = "create"
    /\ pdf_files[p].exists
    /\ LET i == task[p].created + 1
       IN  /\ chunk_rows' = [chunk_rows EXCEPT ![ChunkId(p, i)] =
                               [exists |-> TRUE, text |-> task[p].texts[i],
                                vector_id |-> NullVectorId]]
           /\ task' = [task EXCEPT ![p].created = i,
                                   ![p].pc = IF i = Len(task[p].texts)
                                             THEN "save_completed" ELSE "create"]
    /\ UNCHANGED <<pdf_files, index_files, metadata_files, del, srch, ck, ask, gen, chat, ask2>>

psc_create_chunk_raises(p) ==
    /\ task[p].pc = "create"
    /\ ~pdf_files[p].exists
    /\ task' = [task EXCEPT ![p].pc = "except_processor", ![p].exc = "persist"]
    /\ UNCHANGED <<pdf_files, chunk_rows, index_files, metadata_files, del, srch, ck, ask, gen, chat, ask2>>

\* pdf_processor.py 205-207: total_chunks, 'completed', save
psc_save_completed(p) ==
    /\ task[p].pc = "save_completed"
    /\ LET obj == [task[p].pdf EXCEPT !.total_chunks = task[p].created,
                                      !.status = "completed"]
       IN  /\ pdf_files' = [pdf_files EXCEPT ![p] = model_save(obj)]
           /\ task' = [task EXCEPT ![p].pdf = obj, ![p].pc = "processed"]
    /\ UNCHANGED <<chunk_rows, index_files, metadata_files, del, srch, ck, ask, gen, chat, ask2>>

\* pdf_processor.py 211-215: 'failed', the error text, save, re-raise
psc_except(p) ==
    /\ task[p].pc = "except_processor"
    /\ LET obj == [task[p].pdf EXCEPT !.status = "failed", !.error = task[p].exc]
       IN  /\ pdf_files' = [pdf_files EXCEPT ![p] = model_save(obj)]
           /\ task' = [task EXCEPT ![p].pdf = obj, ![p].pc = "except_task"]
    /\ UNCHANGED <<chunk_rows, index_files, metadata_files, del, srch, ck, ask, gen, chat, ask2>>


\* as not_chunks, with the test for an empty list dropped
not_chunks_dropped(chunks) == FALSE

\* tasks.py 26: `if not chunks`
not_chunks(chunks) == Len(chunks) = 0

\* tasks.py 26-31: no chunk was created: 'failed', the error text, save, and
\* the task returns
task_no_chunks(p) ==
    /\ task[p].pc = "processed"
    /\ not_chunks(TaskChunkIds(p))
    /\ LET obj == [task[p].pdf EXCEPT !.status = "failed", !.error = "no_text"]
       IN  /\ pdf_files' = [pdf_files EXCEPT ![p] = model_save(obj)]
           /\ task' = [task EXCEPT ![p].pdf = obj, ![p].pc = "returned_empty"]
    /\ UNCHANGED <<chunk_rows, index_files, metadata_files, del, srch, ck, ask, gen, chat, ask2>>

\* tasks.py 37-38: embedding_service.embed_chunks(chunks) returns or raises
task_embed(p) ==
    /\ task[p].pc = "processed"
    /\ ~not_chunks(TaskChunkIds(p))
    /\ task' = [task EXCEPT ![p].pc = "add_load_index",
                            ![p].embed_calls = @ + 1]
    /\ UNCHANGED <<pdf_files, chunk_rows, index_files, metadata_files, del, srch, ck, ask, gen, chat, ask2>>

task_embed_raises(p) ==
    /\ Faults < MaxFaults
    /\ task[p].pc = "processed"
    /\ ~not_chunks(TaskChunkIds(p))
    /\ task' = [task EXCEPT ![p].pc = "except_task", ![p].exc = "embed",
                            ![p].embed_calls = @ + 1]
    /\ UNCHANGED <<pdf_files, chunk_rows, index_files, metadata_files, del, srch, ck, ask, gen, chat, ask2>>

\* vector_db_service.py 45-50, 58-62 (called at tasks.py 45 with
\* pdf_file.user_id): the index file is read if it exists; without it the
\* index and the metadata start empty and lines 92-104 follow at once
add_load_index(p) ==
    /\ task[p].pc = "add_load_index"
    /\ LET f == index_files[get_user_index_path(Owner(p))]
           new == add_local(<<>>, {}, TaskItems(p))
       IN  IF f.exists
           THEN task' = [task EXCEPT ![p].pc = "add_load_metadata",
                                     ![p].index = f.vecs,
                                     ![p].add_calls = @ + 1]
           ELSE task' = [task EXCEPT ![p].pc = "add_vector_ids",
                                     ![p].index = new.index,
                                     ![p].metadata = new.metadata,
                                     ![p].add_calls = @ + 1]
    /\ UNCHANGED <<pdf_files, chunk_rows, index_files, metadata_files, del, srch, ck, ask, gen, chat, ask2>>

\* vector_db_service.py 53-57, then 92-104: the metadata file is read if it
\* exists, else the dict starts empty; the vectors and the slots are added
add_load_metadata(p) ==
    /\ task[p].pc = "add_load_metadata"
    /\ LET f == metadata_files[get_user_metadata_path(Owner(p))]
           new == add_local(task[p].index, IF f.exists THEN f.map ELSE {},
                            TaskItems(p))
       IN  task' = [task EXCEPT ![p].pc = "add_vector_ids",
                                ![p].index = new.index,
                                ![p].metadata = new.metadata]
    /\ UNCHANGED <<pdf_files, chunk_rows, index_files, metadata_files, del, srch, ck, ask, gen, chat, ask2>>

\* vector_db_service.py 106-112: every chunk that is still in the table gets
\* its slot as vector_id (the get and the save of all chunks in one step)
add_vector_ids(p) ==
    /\ task[p].pc = "add_vector_ids"
    /\ LET items == TaskItems(p)
           current_size == Len(task[p].index) - Len(items)
       IN  chunk_rows' =
             [c \in ChunkIds |->
                IF chunk_rows[c].exists /\ \E i \in 1..Len(items) : items[i].id = c
                THEN [chunk_rows[c] EXCEPT !.vector_id =
                        current_size + (CHOOSE i \in 1..Len(items) : items[i].id = c) - 1]
                ELSE chunk_rows[c]]
    /\ task' = [task EXCEPT ![p].pc = "save_write_index"]
    /\ UNCHANGED <<pdf_files, index_files, metadata_files, del, srch, ck, ask, gen, chat, ask2>>

\* vector_db_service.py 74: faiss.write_index replaces the index file, or
\* fails and leaves it as it was
save_write_index(p) ==
    /\ task[p].pc = "save_write_index"
    /\ index_files' = [index_files EXCEPT ![get_user_index_path(Owner(p))] =
                          [exists |-> TRUE, vecs |-> task[p].index]]
    /\ task' = [task EXCEPT ![p].pc = "save_write_metadata"]
    /\ UNCHANGED <<pdf_files, chunk_rows, metadata_files, del, srch, ck, ask, gen, chat, ask2>>

save_write_index_raises(p) ==
    /\ Faults < MaxFaults
    /\ task[p].pc = "save_write_index"
    /\ task' = [task EXCEPT ![p].pc = "except_task", ![p].exc = "index"]
    /\ UNCHANGED <<pdf_files, chunk_rows, index_files, metadata_files, del, srch, ck, ask, gen, chat, ask2>>

\* vector_db_service.py 77-78: pickle.dump replaces the metadata file
save_write_metadata(p) ==
    /\ task[p].pc = "save_write_metadata"
    /\ metadata_files' = [metadata_files EXCEPT ![get_user_metadata_path(Owner(p))] =
                             [exists |-> TRUE, map |-> task[p].metadata]]
    /\ task' = [task EXCEPT ![p].pc = "task_completed"]
    /\ UNCHANGED <<pdf_files, chunk_rows, index_files, del, srch, ck, ask, gen, chat, ask2>>

\* tasks.py 50-51: 'completed', save; the task returns its result dict
task_completed(p) ==
    /\ task[p].pc = "task_completed"
    /\ LET obj == [task[p].pdf EXCEPT !.status = "completed"]
       IN  /\ pdf_files' = [pdf_files EXCEPT ![p] = model_save(obj)]
           /\ task' = [task EXCEPT ![p].pdf = obj, ![p].pc = "returned",
                                   ![p].index = <<>>, ![p].metadata = {}]
    /\ UNCHANGED <<chunk_rows, index_files, metadata_files, del, srch, ck, ask, gen, chat, ask2>>

\* as task_except, without the update of the row
task_except_no_update(p) ==
    /\ task[p].pc = "except_task"
    /\ task' = [task EXCEPT ![p].pc = "raised",
                            ![p].index = <<>>, ![p].metadata = {}]
    /\ UNCHANGED <<pdf_files, chunk_rows, index_files, metadata_files, del, srch, ck, ask, gen, chat, ask2>>

\* tasks.py 64-75: the row is fetched again and, if it is still there, set
\* to 'failed' with the error text and saved; the exception is re-raised
task_except(p) ==
    /\ task[p].pc = "except_task"
    /\ pdf_files' = [pdf_files EXCEPT ![p] =
                        IF @.exists
                        THEN [@ EXCEPT !.status = "failed", !.error = task[p].exc]
                        ELSE @]
    /\ task' = [task EXCEPT ![p].pc = "raised",
                            ![p].index = <<>>, ![p].metadata = {}]
    /\ UNCHANGED <<chunk_rows, index_files, metadata_files, del, srch, ck, ask, gen, chat, ask2>>

\* the worker process is killed while it runs the task
task_crash(p) ==
    /\ TaskRunning(p)
    /\ Faults < MaxFaults
    /\ task' = [task EXCEPT ![p] = [TaskIdle EXCEPT !.pc = "crashed"]]
    /\ UNCHANGED <<pdf_files, chunk_rows, index_files, metadata_files, del, srch, ck, ask, gen, chat, ask2>>


(* ------------------------------------------------------------------ *)
(* delete_pdf(request, pdf_id) and VectorDBService.delete_pdf_vectors   *)
(* ------------------------------------------------------------------ *)

\* views.py 136-142: the owner's row is fetched; 404 when it is missing
delete_get(p) ==
    /\ del[p].pc = "idle"
    /\ Deletes < MaxDeletes
    /\ InFlight < MaxInFlight
    /\ del' = [del EXCEPT ![p].pc = IF pdf_files[p].exists THEN "query"
                                    ELSE "not_found"]
    /\ UNCHANGED <<pdf_files, chunk_rows, index_files, metadata_files, task, srch, ck, ask, gen, chat, ask2>>

\* the chunks of the user that are not chunks of document p, in the
\* table's ordering (pdf, chunk_index)
all_user_chunks_kept(p) == SortedSeq(ChunksOfUser(Owner(p)))

RemainingChunks(p) == SortedSeq(ChunksOfUser(Owner(p)) \ ChunksOfPdf(p))
ChunkTextOf == [c \in ChunkIds |-> chunk_rows[c].text]

\* vector_db_service.py 160-172 and 190-192: nothing to remove, nothing
\* left, or the remaining chunks are read and embedded again
dpv_query(p) ==
    /\ del[p].pc = "query"
    /\ del' = [del EXCEPT
         ![p].pc = IF ChunksOfPdf(p) = {} THEN "delete_row"
                   ELSE IF Len(RemainingChunks(p)) = 0 THEN "remove_index"
                   ELSE "write_index",
         ![p].remaining = IF ChunksOfPdf(p) = {} THEN <<>>
                          ELSE embed_chunks(RemainingChunks(p), ChunkTextOf)]
    /\ UNCHANGED <<pdf_files, chunk_rows, index_files, metadata_files, task, srch, ck, ask, gen, chat, ask2>>

\* vector_db_service.py 192: embed_chunks raises; the request fails and the
\* row is not deleted
dpv_embed_raises(p) ==
    /\ Faults < MaxFaults
    /\ del[p].pc = "query"
    /\ ChunksOfPdf(p) # {}
    /\ Len(RemainingChunks(p)) > 0
    /\ del' = [del EXCEPT ![p].pc = "error"]
    /\ UNCHANGED <<pdf_files, chunk_rows, index_files, metadata_files, task, srch, ck, ask, gen, chat, ask2>>

\* vector_db_service.py 176-177
dpv_remove_index(p) ==
    /\ del[p].pc = "remove_index"
    /\ index_files' = [index_files EXCEPT ![get_user_index_path(Owner(p))] = NoIndexFile]
    /\ del' = [del EXCEPT ![p].pc = "remove_metadata"]
    /\ UNCHANGED <<pdf_files, chunk_rows, metadata_files, task, srch, ck, ask, gen, chat, ask2>>

\* vector_db_service.py 178-180
dpv_remove_metadata(p) ==
    /\ del[p].pc = "remove_metadata"
    /\ metadata_files' = [metadata_files EXCEPT ![get_user_metadata_path(Owner(p))] =
                             NoMetadataFile]
    /\ del' = [del EXCEPT ![p].pc = "delete_row"]
    /\ UNCHANGED <<pdf_files, chunk_rows, index_files, task, srch, ck, ask, gen, chat, ask2>>

\* vector_db_service.py 186-201: the new index and the new metadata, slots
\* numbered from 0 in the order of the embedded chunks
rebuild_index(items) == [i \in 1..Len(items) |-> [vec |-> items[i].vec, of |-> items[i].id]]
rebuild_metadata(items) == {<<i - 1, items[i].id>> : i \in 1..Len(items)}

\* vector_db_service.py 204 -> 74
dpv_write_index(p) ==
    /\ del[p].pc = "write_index"
    /\ index_files' = [index_files EXCEPT ![get_user_index_path(Owner(p))] =
                          [exists |-> TRUE, vecs |-> rebuild_index(del[p].remaining)]]
    /\ del' = [del EXCEPT ![p].pc = "write_metadata"]
    /\ UNCHANGED <<pdf_files, chunk_rows, metadata_files, task, srch, ck, ask, gen, chat, ask2>>

\* vector_db_service.py 204 -> 77-78
dpv_write_metadata(p) ==
    /\ del[p].pc = "write_metadata"
    /\ metadata_files' = [metadata_files EXCEPT ![get_user_metadata_path(Owner(p))] =
                             [exists |-> TRUE, map |-> rebuild_metadata(del[p].remaining)]]
    /\ del' = [del EXCEPT ![p].pc = "delete_row", ![p].remaining = <<>>]
    /\ UNCHANGED <<pdf_files, chunk_rows, index_files, task, srch, ck, ask, gen, chat, ask2>>

\* views.py 154: pdf_file.delete() removes the row and, by cascade, its chunks
delete_row(p) ==
    /\ del[p].pc = "delete_row"
    /\ pdf_files' = [pdf_files EXCEPT ![p] = NoPdf]
    /\ chunk_rows' = [c \in ChunkIds |-> IF PdfOf(c) = p THEN NoChunk ELSE chunk_rows[c]]
    /\ del' = [del EXCEPT ![p].pc = "done"]
    /\ UNCHANGED <<index_files, metadata_files, task, srch, ck, ask, gen, chat, ask2>>


(* ------------------------------------------------------------------ *)
(* VectorDBService.search(user_id, query_embedding, top_k)              *)
(* ------------------------------------------------------------------ *)

Min(a, b) == IF a < b THEN a ELSE b

\* index.search(query, n) of faiss.IndexFlatL2, n <= ntotal: the slots of n
\* nearest vectors by non-decreasing squared distance. search() passes the
\* library's order on; which of several vectors at one distance comes first,
\* and which of them are kept at the cut, is the library's choice, so every
\* such answer is one the call can give.
index_search(index, q, n) ==
    LET all == 0..(Len(index) - 1)
        dist(s) == L2(index[s + 1].vec, q)
    IN  {slots \in [1..n -> all] :
            /\ \A i \in 1..n, j \in 1..n : i < j =>
                  slots[i] # slots[j] /\ dist(slots[i]) <= dist(slots[j])
            /\ \A t \in all \ {slots[i] : i \in 1..n} :
                  \A i \in 1..n : dist(slots[i]) <= dist(t)}

\* vector_db_service.py 142-145: the slots that are keys of the metadata
\* dict are translated, the others are skipped
RECURSIVE MapSlots(_, _)
MapSlots(slots, metadata) ==
    IF slots = <<>> THEN <<>>
    ELSE (IF slots[1] \in DictKeys(metadata)
          THEN <<DictGet(metadata, slots[1])>> ELSE <<>>)
         \o MapSlots(Tail(slots), metadata)

\* vector_db_service.py 132-139
search_slots(index, q, top_k) ==
    IF Len(index) = 0 THEN {<<>>}
    ELSE index_search(index, q, Min(top_k, Len(index)))

\* as load_index, creating the index file of a user who has none
load_index_creating(u) ==
    /\ LET f == index_files[get_user_index_path(u)]
       IN  /\ srch' = [SrchIdle EXCEPT !.pc = IF f.exists THEN "load_metadata" ELSE "loaded",
                                       !.user = u, !.index = f.vecs]
           /\ index_files' = [index_files EXCEPT ![get_user_index_path(u)] =
                                 [exists |-> TRUE, vecs |-> f.vecs]]
    /\ UNCHANGED <<pdf_files, chunk_rows, metadata_files, task, del, ck, ask, gen, chat, ask2>>

\* vector_db_service.py 45-50, 58-62: the index file is read if it exists
load_index(u) ==
    /\ LET f == index_files[get_user_index_path(u)]
       IN  srch' = [SrchIdle EXCEPT !.pc = IF f.exists THEN "load_metadata" ELSE "loaded",
                                    !.user = u, !.index = f.vecs]
    /\ UNCHANGED <<pdf_files, chunk_rows, index_files, metadata_files, task, del, ck, ask, gen, chat, ask2>>

\* vector_db_service.py 117-130: a search request arrives
search_load_index(u) ==
    /\ srch.pc = "idle"
    /\ InFlight < MaxInFlight
    /\ load_index(u)

\* vector_db_service.py 53-57
search_load_metadata ==
    /\ srch.pc = "load_metadata"
    /\ LET f == metadata_files[get_user_metadata_path(srch.user)]
       IN  srch' = [srch EXCEPT !.pc = "loaded",
                                !.metadata = IF f.exists THEN f.map ELSE {}]
    /\ UNCHANGED <<pdf_files, chunk_rows, index_files, metadata_files, task, del, ck, ask, gen, chat, ask2>>

\* vector_db_service.py 132-147: the slots found and their translation are
\* the result handed to the caller
search_return ==
    /\ srch.pc = "loaded"
    /\ \E q \in QueryVectors, k \in 1..MaxTopK :
          \E slots \in search_slots(srch.index, q, k) :
             srch' = [srch EXCEPT !.pc = "returned", !.query = q, !.top_k = k,
                                  !.slots = slots,
                                  !.result = MapSlots(slots, srch.metadata)]
    /\ UNCHANGED <<pdf_files, chunk_rows, index_files, metadata_files, task, del, ck, ask, gen, chat, ask2>>

\* the caller has taken the result; the request's locals are gone
search_done ==
    /\ srch.pc = "returned"
    /\ srch' = SrchIdle
    /\ UNCHANGED <<pdf_files, chunk_rows, index_files, metadata_files, task, del, ck, ask, gen, chat, ask2>>

(* ------------------------------------------------------------------ *)
(* RAGService.ask_question, called by the view ask_question             *)
(* ------------------------------------------------------------------ *)

\* the session ids and the document filters a request can carry; 0 and {}
\* stand for an absent session_id and absent or empty pdf_ids
SessionIds == {0, 1}
PdfFilters == {{}, {1}, {3}}

\* as ordered_by_search, in the order the table gives the rows
ordered_by_storage(chunk_ids, chunks_dict) == SortedSeq(chunks_dict)

\* rag_service.py 65: the ids of chunk_ids that are keys of chunks_dict, in
\* the order of chunk_ids
RECURSIVE ordered_by_search(_, _)
ordered_by_search(chunk_ids, chunks_dict) ==
    IF chunk_ids = <<>> THEN <<>>
    ELSE (IF chunk_ids[1] \in chunks_dict THEN <<chunk_ids[1]>> ELSE <<>>)
         \o ordered_by_search(Tail(chunk_ids), chunks_dict)

\* as hydrate, without the filter on the documents
hydrate_unfiltered(chunk_ids, user_id, pdf_ids) ==
    {c \in {chunk_ids[i] : i \in 1..Len(chunk_ids)} :
        /\ chunk_rows[c].exists
        /\ UserOf(c) = user_id}

\* rag_service.py 57-64: the rows of table chunks with an id of chunk_ids
\* and the user's id, and a document of pdf_ids if any is given
hydrate(chunk_ids, user_id, pdf_ids) ==
    {c \in {chunk_ids[i] : i \in 1..Len(chunk_ids)} :
        /\ chunk_rows[c].exists
        /\ UserOf(c) = user_id
        /\ pdf_ids # {} => PdfOf(c) \in pdf_ids}

\* chat/views.py 123-165: the request is refused when the session is not the
\* user's or a document of pdf_ids is not the user's or not completed; else
\* RAGService.ask_question is called
ask_begin(u, sid, pdfs) ==
    /\ ask.pc = "idle" /\ gen.pc = "idle" /\ srch.pc = "idle"
    /\ InFlight < MaxInFlight
    /\ LET session_ok == sid # 0 => (chat.session.exists /\ SessionOwner = u)
           pdfs_ok == \A p \in pdfs : /\ pdf_files[p].exists /\ Owner(p) = u
                                      /\ pdf_files[p].status = "completed"
       IN  ask' = IF session_ok /\ pdfs_ok
                  THEN [AskIdle EXCEPT !.pc = "search", !.user = u,
                                       !.session_id = sid, !.pdf_ids = pdfs]
                  ELSE [AskIdle EXCEPT !.pc = "rejected"]
    /\ UNCHANGED <<pdf_files, chunk_rows, index_files, metadata_files, task, del, srch,
                   ck, gen, chat, ask2>>

\* rag_service.py 44: generate_query_embedding raises; nothing catches it
ask_embed_raises ==
    /\ ask.pc = "search" /\ srch.pc = "idle"
    /\ ask' = [ask EXCEPT !.pc = "raised"]
    /\ UNCHANGED <<pdf_files, chunk_rows, index_files, metadata_files, task, del, srch,
                   ck, gen, chat, ask2>>

\* rag_service.py 47: vector_db_service.search(user_id, query_embedding, top_k)
ask_search ==
    /\ ask.pc = "search" /\ srch.pc = "idle"
    /\ load_index(ask.user)

\* rag_service.py 49-54: the search found nothing
ask_no_chunks ==
    /\ ask.pc = "search" /\ srch.pc = "returned"
    /\ srch.result = <<>>
    /\ ask' = [ask EXCEPT !.pc = "returned",
                          !.response = [answer |-> "no_information", sources |-> <<>>,
                                        chunk_ids |-> <<>>]]
    /\ srch' = SrchIdle
    /\ UNCHANGED <<pdf_files, chunk_rows, index_files, metadata_files, task, del,
                   ck, gen, chat, ask2>>

\* rag_service.py 57-72: the chunks are read from the table and put in the
\* order of the search result; when none is left the second fixed answer
\* is returned
ask_hydrate ==
    /\ ask.pc = "search" /\ srch.pc = "returned"
    /\ srch.result # <<>>
    /\ LET chunks_dict == hydrate(srch.result, ask.user, ask.pdf_ids)
           ordered_chunks == ordered_by_search(srch.result, chunks_dict)
       IN  ask' = IF ordered_chunks = <<>>
                  THEN [ask EXCEPT !.pc = "returned", !.chunk_ids = srch.result,
                                   !.response = [answer |-> "no_information_in_documents",
                                                 sources |-> <<>>, chunk_ids |-> <<>>]]
                  ELSE [ask EXCEPT !.pc = "context", !.chunk_ids = srch.result,
                                   !.ordered_chunks = ordered_chunks]
    /\ srch' = SrchIdle
    /\ UNCHANGED <<pdf_files, chunk_rows, index_files, metadata_files, task, del,
                   ck, gen, chat, ask2>>

\* rag_service.py 75-76, 119-123: _build_context reads chunk.pdf of every
\* chunk; the read raises DoesNotExist when the document row is gone
ask_context ==
    /\ ask.pc = "context"
    /\ ask' = [ask EXCEPT !.pc =
                 IF \A i \in 1..Len(ask.ordered_chunks) :
                       pdf_files[PdfOf(ask.ordered_chunks[i])].exists
                 THEN "generate" ELSE "raised"]
    /\ UNCHANGED <<pdf_files, chunk_rows, index_files, metadata_files, task, del, srch,
                   ck, gen, chat, ask2>>

\* as ask_generate_raises, going on to the chat history
ask_generate_raises_saved ==
    /\ ask.pc = "generate"
    /\ ask' = [ask EXCEPT !.pc = "save_user_message",
                          !.gen_calls = @ + 1,
                          !.response = [answer |-> "error", sources |-> <<>>,
                                        chunk_ids |-> <<>>]]
    /\ UNCHANGED <<pdf_files, chunk_rows, index_files, metadata_files, task, del, srch,
                   ck, gen, chat, ask2>>

\* rag_service.py 79-92: generate_content raises; the error text is the answer
ask_generate_raises ==
    /\ ask.pc = "generate"
    /\ ask' = [ask EXCEPT !.pc = "returned",
                          !.gen_calls = @ + 1,
                          !.response = [answer |-> "error", sources |-> <<>>,
                                        chunk_ids |-> <<>>]]
    /\ UNCHANGED <<pdf_files, chunk_rows, index_files, metadata_files, task, del, srch,
                   ck, gen, chat, ask2>>

\* rag_service.py 79-86, 95, 98, 107-111: generate_content returns the answer;
\* the sources and chunk_ids of the response are those of ordered_chunks
ask_generate ==
    /\ ask.pc = "generate"
    /\ ask' = [ask EXCEPT !.pc = IF ask.session_id # 0 THEN "save_user_message"
                                 ELSE "returned",
                          !.gen_calls = @ + 1,
                          !.response = [answer |-> "generated",
                                        sources |-> ask.ordered_chunks,
                                        chunk_ids |-> ask.ordered_chunks]]
    /\ UNCHANGED <<pdf_files, chunk_rows, index_files, metadata_files, task, del, srch,
                   ck, gen, chat, ask2>>

\* rag_service.py 178-183: Message.objects.create for the question; the
\* insert violates the foreign key when the session is gone
ask_save_user_message ==
    /\ ask.pc = "save_user_message"
    /\ IF chat.session.exists
       THEN /\ chat' = [chat EXCEPT !.messages =
                          Append(@, [role |-> "user", content |-> "question",
                                     chunk_ids |-> <<>>])]
            /\ ask' = [ask EXCEPT !.pc = "save_assistant_message"]
       ELSE /\ ask' = [ask EXCEPT !.pc = "raised"]
            /\ UNCHANGED chat
    /\ UNCHANGED <<pdf_files, chunk_rows, index_files, metadata_files, task, del, srch,
                   ck, gen, ask2>>

\* as ask_save_assistant_message, with no chunk ids on the message
ask_save_assistant_untagged ==
    /\ ask.pc = "save_assistant_message"
    /\ IF chat.session.exists
       THEN /\ chat' = [chat EXCEPT !.messages =
                          Append(@, [role |-> "assistant", content |-> ask.response.answer,
                                     chunk_ids |-> <<>>])]
            /\ ask' = [ask EXCEPT !.pc = "touch_session"]
       ELSE /\ ask' = [ask EXCEPT !.pc = "raised"]
            /\ UNCHANGED chat
    /\ UNCHANGED <<pdf_files, chunk_rows, index_files, metadata_files, task, del, srch,
                   ck, gen, ask2>>

\* rag_service.py 186-192: Message.objects.create for the answer
ask_save_assistant_message ==
    /\ ask.pc = "save_assistant_message"
    /\ IF chat.session.exists
       THEN /\ chat' = [chat EXCEPT !.messages =
                          Append(@, [role |-> "assistant", content |-> ask.response.answer,
                                     chunk_ids |-> ask.ordered_chunks])]
            /\ ask' = [ask EXCEPT !.pc = "touch_session"]
       ELSE /\ ask' = [ask EXCEPT !.pc = "raised"]
            /\ UNCHANGED chat
    /\ UNCHANGED <<pdf_files, chunk_rows, index_files, metadata_files, task, del, srch,
                   ck, gen, ask2>>

\* rag_service.py 195-199: the session is saved, which sets updated_at, if
\* it is still there
ask_touch_session ==
    /\ ask.pc = "touch_session"
    /\ chat' = IF chat.session.exists
               THEN [chat EXCEPT !.session.updated_at = @ + 1]
               ELSE chat
    /\ ask' = [ask EXCEPT !.pc = "returned"]
    /\ UNCHANGED <<pdf_files, chunk_rows, index_files, metadata_files, task, del, srch,
                   ck, gen, ask2>>

\* chat/views.py 88-102: the owner deletes the session; its messages go by
\* cascade. The deletion is taken while a request that names the session runs.
delete_chat_session ==
    /\ chat.session.exists
    /\ AskRunning /\ ask.session_id # 0
    /\ chat' = [session |-> [exists |-> FALSE, updated_at |-> 0], messages |-> <<>>]
    /\ UNCHANGED <<pdf_files, chunk_rows, index_files, metadata_files, task, del, srch,
                   ck, ask, gen, ask2>>

(* ------------------------------------------------------------------ *)
(* RAGService.generate_summary and generate_mindmap, called by the views *)
(* ------------------------------------------------------------------ *)

\* rag_service.py 220 and 260: the number of chunks the prompt takes
SummaryCap == 20
MindmapCap == 15
Kinds == {"summary", "mindmap"}

\* chat/views.py 181-205, 225-249: the request is refused when the document
\* is not the user's or not completed
gen_begin(kind, u, p) ==
    /\ gen.pc = "idle" /\ ask.pc = "idle"
    /\ InFlight < MaxInFlight
    /\ gen' = IF /\ pdf_files[p].exists /\ Owner(p) = u
                 /\ pdf_files[p].status = "completed"
              THEN [GenIdle EXCEPT !.pc = "query", !.kind = kind, !.user = u, !.pdf = p]
              ELSE [GenIdle EXCEPT !.pc = "rejected"]
    /\ UNCHANGED <<pdf_files, chunk_rows, index_files, metadata_files, task, del, srch,
                   ck, ask, chat, ask2>>

\* rag_service.py 213-221, 253-261: the chunks of the document in chunk_index
\* order; without chunks the fixed text is returned, else the first
\* SummaryCap or MindmapCap chunks are joined
gen_query ==
    /\ gen.pc = "query"
    /\ LET chunks == SortedSeq({c \in ChunksOfPdf(gen.pdf) : UserOf(c) = gen.user})
           cap == IF gen.kind = "summary" THEN SummaryCap ELSE MindmapCap
       IN  gen' = IF chunks = <<>>
                  THEN [gen EXCEPT !.pc = "returned", !.result = "no_content"]
                  ELSE [gen EXCEPT !.pc = "generate",
                                   !.chunks = SubSeq(chunks, 1, Min(Len(chunks), cap))]
    /\ UNCHANGED <<pdf_files, chunk_rows, index_files, metadata_files, task, del, srch,
                   ck, ask, chat, ask2>>

\* rag_service.py 230-237: generate_content returns the summary
gen_summary ==
    /\ gen.pc = "generate" /\ gen.kind = "summary"
    /\ gen' = [gen EXCEPT !.pc = "returned", !.gen_calls = @ + 1, !.result = "text"]
    /\ UNCHANGED <<pdf_files, chunk_rows, index_files, metadata_files, task, del, srch,
                   ck, ask, chat, ask2>>

\* rag_service.py 238-239: generate_content raises; the error text is
\* returned as the summary
gen_summary_raises ==
    /\ gen.pc = "generate" /\ gen.kind = "summary"
    /\ gen' = [gen EXCEPT !.pc = "returned", !.gen_calls = @ + 1, !.result = "error_text"]
    /\ UNCHANGED <<pdf_files, chunk_rows, index_files, metadata_files, task, del, srch,
                   ck, ask, chat, ask2>>

\* rag_service.py 287-296: generate_content is called with the keyword
\* `ontents`; the call raises TypeError before the collaborator is reached,
\* and the except clause returns the error dict
gen_mindmap ==
    /\ gen.pc = "generate" /\ gen.kind = "mindmap"
    /\ gen' = [gen EXCEPT !.pc = "returned", !.result = "error_dict"]
    /\ UNCHANGED <<pdf_files, chunk_rows, index_files, metadata_files, task, del, srch,
                   ck, ask, chat, ask2>>

\* the service with the ingestion, the deletion and one request of the chat,
\* when no collaborator of the ingestion fails
NextRag ==
    \/ \E p \in Pdfs :
          \/ task_start(p)
          \/ psc_extract(p)
          \/ psc_create_chunk(p)
          \/ psc_save_completed(p)
          \/ task_no_chunks(p)
          \/ task_embed(p)
          \/ add_load_index(p)
          \/ add_load_metadata(p)
          \/ add_vector_ids(p)
          \/ save_write_index(p)
          \/ save_write_metadata(p)
          \/ task_completed(p)
          \/ delete_get(p)
          \/ dpv_query(p)
          \/ dpv_remove_index(p)
          \/ dpv_remove_metadata(p)
          \/ dpv_write_index(p)
          \/ dpv_write_metadata(p)
          \/ delete_row(p)
    \/ \E u \in Users, sid \in SessionIds, pdfs \in PdfFilters : ask_begin(u, sid, pdfs)
    \/ ask_embed_raises
    \/ ask_search
    \/ search_load_metadata
    \/ search_return
    \/ ask_no_chunks
    \/ ask_hydrate
    \/ ask_context
    \/ ask_generate
    \/ ask_generate_raises
    \/ ask_save_user_message
    \/ ask_save_assistant_message
    \/ ask_touch_session
    \/ delete_chat_session
    \/ \E kind \in Kinds, u \in Users, p \in Pdfs : gen_begin(kind, u, p)
    \/ gen_query
    \/ gen_summary
    \/ gen_summary_raises
    \/ gen_mindmap

\* user 1 has uploaded two documents, user 2 none
InitRag ==
    /\ Uploaded({1, 2})
    /\ ck = CkIdle

SpecRag == InitRag /\ [][NextRag]_vars


(* ------------------------------------------------------------------ *)
(* A second ask_question request with the same session_id               *)
(* ------------------------------------------------------------------ *)

\* chat/views.py 135-142 and rag_service.py 44-98: the request of the
\* session's owner has passed the view's check and its answer has been
\* generated; its retrieval is not followed, its messages carry no chunk ids
ask2_begin ==
    /\ ask2.pc = "idle"
    /\ chat.session.exists
    /\ ask2' = [ask2 EXCEPT !.pc = "save_user_message"]
    /\ UNCHANGED <<pdf_files, chunk_rows, index_files, metadata_files, task, del, srch,
                   ck, ask, gen, chat>>

\* rag_service.py 178-183
ask2_save_user_message ==
    /\ ask2.pc = "save_user_message"
    /\ IF chat.session.exists
       THEN /\ chat' = [chat EXCEPT !.messages =
                          Append(@, [role |-> "user", content |-> "question2",
                                     chunk_ids |-> <<>>])]
            /\ ask2' = [ask2 EXCEPT !.pc = "save_assistant_message"]
       ELSE /\ ask2' = [ask2 EXCEPT !.pc = "raised"]
            /\ UNCHANGED chat
    /\ UNCHANGED <<pdf_files, chunk_rows, index_files, metadata_files, task, del, srch,
                   ck, ask, gen>>

\* rag_service.py 186-192
ask2_save_assistant_message ==
    /\ ask2.pc = "save_assistant_message"
    /\ IF chat.session.exists
       THEN /\ chat' = [chat EXCEPT !.messages =
                          Append(@, [role |-> "assistant", content |-> "generated2",
                                     chunk_ids |-> <<>>])]
            /\ ask2' = [ask2 EXCEPT !.pc = "touch_session"]
       ELSE /\ ask2' = [ask2 EXCEPT !.pc = "raised"]
            /\ UNCHANGED chat
    /\ UNCHANGED <<pdf_files, chunk_rows, index_files, metadata_files, task, del, srch,
                   ck, ask, gen>>

\* rag_service.py 195-199
ask2_touch_session ==
    /\ ask2.pc = "touch_session"
    /\ chat' = IF chat.session.exists
               THEN [chat EXCEPT !.session.updated_at = @ + 1]
               ELSE chat
    /\ ask2' = [ask2 EXCEPT !.pc = "returned"]
    /\ UNCHANGED <<pdf_files, chunk_rows, index_files, metadata_files, task, del, srch,
                   ck, ask, gen>>

\* the ingestion of one document with two ask_question requests on one
\* session; the one task finds no index file, so it never reads a mapping
NextChat ==
    \/ \E p \in Pdfs :
          \/ task_start(p)
          \/ psc_extract(p)
          \/ psc_create_chunk(p)
          \/ psc_save_completed(p)
          \/ task_no_chunks(p)
          \/ task_embed(p)
          \/ add_load_index(p)
          \/ add_vector_ids(p)
          \/ save_write_index(p)
          \/ save_write_metadata(p)
          \/ task_completed(p)
    \/ \E u \in Users, sid \in SessionIds, pdfs \in PdfFilters : ask_begin(u, sid, pdfs)
    \/ ask_embed_raises
    \/ ask_search
    \/ search_load_metadata
    \/ search_return
    \/ ask_no_chunks
    \/ ask_hydrate
    \/ ask_context
    \/ ask_generate
    \/ ask_generate_raises
    \/ ask_save_user_message
    \/ ask_save_assistant_message
    \/ ask_touch_session
    \/ delete_chat_session
    \/ ask2_begin
    \/ ask2_save_user_message
    \/ ask2_save_assistant_message
    \/ ask2_touch_session

\* user 1 has uploaded one document
InitChat ==
    /\ Uploaded({1})
    /\ ck = CkIdle

SpecChat == InitChat /\ [][NextChat]_vars

(* ------------------------------------------------------------------ *)
(* process_pdf_async when the database raises in the failure handlers   *)
(* ------------------------------------------------------------------ *)

\* pdf_processor.py 211-215: pdf_file.save() in the except clause raises; the
\* new exception leaves process_and_save_chunks and nothing was stored
psc_except_raises(p) ==
    /\ task[p].pc = "except_processor"
    /\ task' = [task EXCEPT ![p].pc = "except_task"]
    /\ UNCHANGED <<pdf_files, chunk_rows, index_files, metadata_files, del, srch, ck, ask, gen, chat, ask2>>

\* tasks.py 67-75: PDFFile.objects.get or pdf_file.save() raises in the
\* except clause; `except: pass` drops it and the first exception is re-raised
task_except_raises(p) ==
    /\ task[p].pc = "except_task"
    /\ task' = [task EXCEPT ![p].pc = "raised",
                            ![p].index = <<>>, ![p].metadata = {}]
    /\ UNCHANGED <<pdf_files, chunk_rows, index_files, metadata_files, del, srch, ck, ask, gen, chat, ask2>>

\* the ingestion tasks of two documents of one user; every collaborator call
\* of a task returns or raises, and no worker is killed
NextTask ==
    \E p \in Pdfs :
       \/ task_start(p)
       \/ psc_extract_raises(p)
       \/ psc_extract(p)
       \/ psc_create_chunk(p)
       \/ psc_save_completed(p)
       \/ psc_except(p)
       \/ psc_except_raises(p)
       \/ task_no_chunks(p)
       \/ task_embed(p)
       \/ task_embed_raises(p)
       \/ add_load_index(p)
       \/ add_load_metadata(p)
       \/ add_vector_ids(p)
       \/ save_write_index(p)
       \/ save_write_index_raises(p)
       \/ save_write_metadata(p)
       \/ task_completed(p)
       \/ task_except(p)
       \/ task_except_raises(p)

SpecTask == InitRag /\ [][NextTask]_vars

(* ------------------------------------------------------------------ *)

Next ==
    \/ \E p \in Pdfs :
          \/ task_start(p)
          \/ psc_extract_raises(p)
          \/ psc_extract(p)
          \/ psc_create_chunk(p)
          \/ psc_create_chunk_raises(p)
          \/ psc_save_completed(p)
          \/ psc_except(p)
          \/ task_no_chunks(p)
          \/ task_embed(p)
          \/ task_embed_raises(p)
          \/ add_load_index(p)
          \/ add_load_metadata(p)
          \/ add_vector_ids(p)
          \/ save_write_index(p)
          \/ save_write_index_raises(p)
          \/ save_write_metadata(p)
          \/ task_completed(p)
          \/ task_except(p)
          \/ task_crash(p)
          \/ delete_get(p)
          \/ dpv_query(p)
          \/ dpv_embed_raises(p)
          \/ dpv_remove_index(p)
          \/ dpv_remove_metadata(p)
          \/ dpv_write_index(p)
          \/ dpv_write_metadata(p)
          \/ delete_row(p)
    \/ \E u \in Users : search_load_index(u)
    \/ search_load_metadata
    \/ search_return
    \/ search_done

Spec == Init /\ [][Next]_vars


(* ------------------------------------------------------------------ *)
(* PDFProcessor.create_chunks                                           *)
(* ------------------------------------------------------------------ *)

\* longest text before the filler of a page
MaxHead == 2
\* largest chunk_size and chunk_overlap given to PDFProcessor
MaxSize == 4
MaxOverlap == 3

\* default of _find_sentence_boundary's search_window
SearchWindow == 100

\* A text is a sequence of characters; a letter, a sentence end and a blank
\* stand for their kinds, "\n" is what create_chunks puts after every page.
Alphabet == {"a", ".", " "}
SentenceEndings == {".", "!", "?", "\n"}
Whitespace == {" ", "\n"}

Max(a, b) == IF a > b THEN a ELSE b

RECURSIVE TextsUpTo(_)
TextsUpTo(n) ==
    IF n = 0 THEN {<<>>}
    ELSE LET shorter == TextsUpTo(n - 1)
         IN  shorter \cup {Append(t, c) : t \in {q \in shorter : Len(q) = n - 1},
                                          c \in Alphabet}

\* what clean_text (pdf_processor.py 61-67) leaves: runs of whitespace are
\* one blank, and no blank begins or ends the text
Cleaned(t) ==
    /\ t # <<>> => t[1] # " " /\ t[Len(t)] # " "
    /\ \A i \in 1..(Len(t) - 1) : ~(t[i] = " " /\ t[i + 1] = " ")

\* a run of letters long enough that a window at the start of the page sees
\* no sentence end after it
Filler == [i \in 1..(SearchWindow + MaxSize + MaxHead) |-> "a"]

\* the page texts extract_text_from_pdf hands over: short texts, and the
\* same followed by a long run of letters
PageTexts ==
    LET heads == {t \in TextsUpTo(MaxHead) : Cleaned(t)}
    IN  heads \cup {h \o Filler : h \in heads}

\* the page mappings: no page, one page, or two pages one of which is short
ShortPages == {<<>>, <<"a">>, <<"a", ".">>}
PageMappings ==
    {<<>>} \cup {<<t>> : t \in PageTexts}
    \cup {<<h, t>> : h \in ShortPages, t \in PageTexts}
    \cup {<<t, h>> : h \in ShortPages, t \in PageTexts}

\* text[a:b] of Python for 0 <= a: the characters at offsets a .. b-1 that exist
Slice(text, a, b) == SubSeq(text, a + 1, Min(b, Len(text)))

\* str.strip()
Strip(t) ==
    LET keep == {i \in 1..Len(t) : t[i] \notin Whitespace}
    IN  IF keep = {} THEN <<>>
        ELSE SubSeq(t, CHOOSE i \in keep : \A j \in keep : i <= j,
                       CHOOSE i \in keep : \A j \in keep : i >= j)

\* pdf_processor.py 85-94: the pages in page-number order, "\n" after each,
\* and the character range of each page
RECURSIVE JoinPages(_)
JoinPages(pages) ==
    IF pages = <<>> THEN <<>>
    ELSE JoinPages(SubSeq(pages, 1, Len(pages) - 1)) \o pages[Len(pages)] \o <<"\n">>

PageRanges(pages) ==
    [n \in 1..Len(pages) |->
        <<Len(JoinPages(SubSeq(pages, 1, n - 1))), Len(JoinPages(SubSeq(pages, 1, n)))>>]

\* pdf_processor.py 133-150: one past the last sentence end within
\* search_window characters before or after position, else position
find_sentence_boundary(text, position, search_window) ==
    LET search_start == Max(0, position - search_window)
        search_end == Min(Len(text), position + search_window)
        found == {j \in search_start..(search_end - 1) : text[j + 1] \in SentenceEndings}
    IN  IF found = {} THEN position
        ELSE (CHOOSE j \in found : \A k \in found : j >= k) + 1

\* as get_page_for_position, with the default taken for every position
last_page_for_position(position, page_char_ranges) == Len(page_char_ranges)

\* pdf_processor.py 152-159: the first page whose range holds the position,
\* else the last page
get_page_for_position(position, page_char_ranges) ==
    LET holds == {n \in 1..Len(page_char_ranges) :
                     page_char_ranges[n][1] <= position /\ position < page_char_ranges[n][2]}
    IN  IF holds = {} THEN Len(page_char_ranges)
        ELSE CHOOSE n \in holds : \A m \in holds : n <= m

\* pdf_processor.py 161-165
estimate_tokens(text) == Len(text) \div 4


\* pdf_processor.py 99-105: the raw window end, moved to the sentence
\* boundary when the window does not reach the end of the text and the
\* boundary lies after the window start
window_end(text, start, chunk_size) ==
    LET end == start + chunk_size
    IN  IF end < Len(text)
        THEN LET sentence_end == find_sentence_boundary(text, end, SearchWindow)
             IN  IF sentence_end > start THEN sentence_end ELSE end
        ELSE end

\* as next_start, stepping back one character more than the overlap
next_start_wider(end, chunk_overlap) == end - chunk_overlap - 1

\* pdf_processor.py 125
next_start(end, chunk_overlap) == end - chunk_overlap

\* pdf_processor.py 128
loop_break(start, text) == start <= 0 \/ start >= Len(text)

\* pdf_processor.py 107-122: the chunk of the window, if its text is not empty
window_chunk(text, ranges, start, end, chunk_index) ==
    LET chunk_text == Strip(Slice(text, start, end))
        chunk_middle == start + ((end - start) \div 2)
    IN  IF chunk_text = <<>> THEN <<>>
        ELSE << [text |-> chunk_text,
                 chunk_index |-> chunk_index,
                 page_number |-> get_page_for_position(chunk_middle, ranges),
                 start_char |-> start,
                 end_char |-> end,
                 token_count |-> estimate_tokens(chunk_text)] >>

\* PDFProcessor(chunk_size, chunk_overlap).create_chunks(page_texts) is called
CkCalled(pages, size, overlap) ==
    [pc |-> "called", page_texts |-> pages, chunk_size |-> size,
     chunk_overlap |-> overlap, full_text |-> <<>>, page_char_ranges |-> <<>>,
     start |-> 0, chunks |-> <<>>, visited |-> {}]

InitChunk ==
    /\ Uploaded({})
    /\ \E pages \in PageMappings, size \in 1..MaxSize, overlap \in 0..MaxOverlap :
          ck = CkCalled(pages, size, overlap)

\* pdf_processor.py 81-97
cc_begin ==
    /\ ck.pc = "called"
    /\ ck' = [ck EXCEPT !.pc = "loop",
                        !.full_text = JoinPages(ck.page_texts),
                        !.page_char_ranges = PageRanges(ck.page_texts),
                        !.start = 0]
    /\ UNCHANGED <<pdf_files, chunk_rows, index_files, metadata_files, task, del, srch, ask, gen, chat, ask2>>

\* pdf_processor.py 98-129: one iteration of the while loop. `visited` keeps
\* the window starts of the iterations done so far.
cc_iteration ==
    /\ ck.pc = "loop"
    /\ ck.start < Len(ck.full_text)
    /\ ck.start \notin ck.visited
    /\ LET end == window_end(ck.full_text, ck.start, ck.chunk_size)
           start == next_start(end, ck.chunk_overlap)
       IN  ck' = [ck EXCEPT
                    !.chunks = @ \o window_chunk(ck.full_text, ck.page_char_ranges,
                                                 ck.start, end, Len(@)),
                    !.start = start,
                    !.visited = @ \cup {ck.start},
                    !.pc = IF loop_break(start, ck.full_text) THEN "done" ELSE "loop"]
    /\ UNCHANGED <<pdf_files, chunk_rows, index_files, metadata_files, task, del, srch, ask, gen, chat, ask2>>

\* pdf_processor.py 98, 131: the loop condition is false; the chunks are returned
cc_exit ==
    /\ ck.pc = "loop"
    /\ ~(ck.start < Len(ck.full_text))
    /\ ck' = [ck EXCEPT !.pc = "done"]
    /\ UNCHANGED <<pdf_files, chunk_rows, index_files, metadata_files, task, del, srch, ask, gen, chat, ask2>>

\* An iteration begins at a window start that an earlier iteration began at:
\* the loop's only state is `start`, so the same iterations follow without
\* end, each emitting its chunk again.
cc_repeat ==
    /\ ck.pc = "loop"
    /\ ck.start < Len(ck.full_text)
    /\ ck.start \in ck.visited
    /\ ck' = [ck EXCEPT !.pc = "repeating"]
    /\ UNCHANGED <<pdf_files, chunk_rows, index_files, metadata_files, task, del, srch, ask, gen, chat, ask2>>

NextChunk == cc_begin \/ cc_iteration \/ cc_exit \/ cc_repeat

SpecChunk == InitChunk /\ [][NextChunk]_vars


(* ------------------------------------------------------------------ *)
(* Claims                                                               *)
(* ------------------------------------------------------------------ *)

IndexSize(u) ==
    LET f == index_files[get_user_index_path(u)]
    IN  IF f.exists THEN Len(f.vecs) ELSE 0
MappingSize(u) ==
    LET f == metadata_files[get_user_metadata_path(u)]
    IN  IF f.exists THEN Cardinality(f.map) ELSE 0

\* chunk c has a slot in the persisted mapping of user u, and the persisted
\* index holds c's vector at that slot
Indexed(c, u) ==
    LET fi == index_files[get_user_index_path(u)]
        fm == metadata_files[get_user_metadata_path(u)]
    IN  /\ fi.exists /\ fm.exists
        /\ \E kv \in fm.map :
              /\ kv[2] = c
              /\ kv[1] + 1 \in 1..Len(fi.vecs)
              /\ fi.vecs[kv[1] + 1].of = c

NothingRunning ==
    /\ \A p \in Pdfs : ~TaskRunning(p) /\ ~DelRunning(p)
    /\ ~SrchRunning

\* C1: whatever add, search and delete operations of the users interleave,
\* the persisted index of a user holds only vectors added for that user's
\* chunks, its mapping names only that user's chunks, and a search for a user
\* returns only ids of that user's chunks.
C1_Isolation ==
    /\ \A u \in Users :
          /\ \A i \in 1..Len(index_files[get_user_index_path(u)].vecs) :
                UserOf(index_files[get_user_index_path(u)].vecs[i].of) = u
          /\ \A kv \in metadata_files[get_user_metadata_path(u)].map : UserOf(kv[2]) = u
    /\ srch.pc = "returned" =>
          \A i \in 1..Len(srch.result) : UserOf(srch.result[i]) = srch.user

\* both users have vectors in their indexes, and a search of user 1 returned chunks
C1_Witness ==
    /\ srch.pc = "returned" /\ srch.user = 1 /\ srch.result # <<>>
    /\ IndexSize(1) > 0 /\ IndexSize(2) > 0

\* C2: when the ingestion tasks of two documents of one user have both
\* returned (and nothing was deleted or failed), every chunk of both is in the
\* user's persisted index and mapping: no add is lost.
C2_NoLostAdd ==
    \A p \in Pdfs, q \in Pdfs :
       ( /\ p # q /\ Owner(p) = Owner(q)
         /\ task[p].pc = "returned" /\ task[q].pc = "returned"
         /\ Deletes = 0 /\ Faults = 0 )
       => \A i \in 1..task[p].created : Indexed(ChunkId(p, i), Owner(p))

\* C3: after a worker was killed at any point of a task, once nothing is
\* running any more, every user's persisted index holds as many vectors as the
\* persisted mapping holds entries.
C3_SizesAgreeAfterCrash ==
    ( /\ \E p \in Pdfs : task[p].pc = "crashed"
      /\ NothingRunning )
    => \A u \in Users : IndexSize(u) = MappingSize(u)

\* C4: the index and the mapping a search has loaded are a matching pair:
\* the mapping translates every slot of the index to the chunk whose vector
\* is at that slot (no failure injected).
C4_SearchReadsMatchingPair ==
    (srch.pc \in {"loaded", "returned"} /\ Faults = 0)
    => srch.metadata = {<<i - 1, srch.index[i].of>> : i \in 1..Len(srch.index)}

\* C5: the stored status of a document changes only from pending to
\* processing, from processing to completed and from processing to failed.
C5_StatusTransitions ==
    [][\A p \in Pdfs :
          ( /\ pdf_files[p].exists /\ pdf_files'[p].exists
            /\ pdf_files[p].status # pdf_files'[p].status )
          => <<pdf_files[p].status, pdf_files'[p].status>> \in
                {<<"pending", "processing">>, <<"processing", "completed">>,
                 <<"processing", "failed">>}]_vars

\* C6: whenever the stored status of a document is completed, every chunk
\* of the document is in its owner's persisted index and mapping.
C6_CompletedImpliesIndexed ==
    \A p \in Pdfs :
       (pdf_files[p].exists /\ pdf_files[p].status = "completed")
       => \A c \in ChunksOfPdf(p) : Indexed(c, Owner(p))

ZeroChunkRun(p) ==
    /\ task[p].texts = <<>> /\ task[p].exc = "none"
    /\ task[p].pc \notin {"absent", "queued", "extract", "not_found", "crashed"}

\* C8: a run whose text yields zero chunks never calls the embedding
\* gateway and never calls the index add, and when it has ended the document,
\* if still there, is failed with the no-text error payload.
C8_ZeroChunks ==
    \A p \in Pdfs :
       ZeroChunkRun(p) =>
          /\ task[p].embed_calls = 0 /\ task[p].add_calls = 0
          /\ (~TaskRunning(p) /\ pdf_files[p].exists)
                => pdf_files[p].status = "failed" /\ pdf_files[p].error = "no_text"

\* a zero-chunk run has ended and left the document failed
C8_Witness ==
    \E p \in Pdfs :
       /\ ZeroChunkRun(p) /\ task[p].pc = "returned_empty"
       /\ pdf_files[p].exists /\ pdf_files[p].status = "failed"

\* C9: the sliding-window loop reaches its exit: no iteration begins at a
\* window start at which an earlier iteration began (the loop's only state is
\* the start, so such a loop never ends).
C9_ChunkerTerminates == ck.pc = "loop" => ck.start \notin ck.visited

\* C10: with overlap < target size, when create_chunks has returned, every
\* non-whitespace character of the buffer lies in [start_char, end_char) of
\* some emitted chunk.
C10_Exhaustive ==
    (ck.pc = "done" /\ ck.chunk_overlap < ck.chunk_size)
    => \A j \in 0..(Len(ck.full_text) - 1) :
          ck.full_text[j + 1] \notin Whitespace
          => \E i \in 1..Len(ck.chunks) :
                ck.chunks[i].start_char <= j /\ j < ck.chunks[i].end_char

\* C11: the chunks create_chunks has emitted so far carry the indexes
\* 0, 1, 2, ... in emission order, and each chunk after the first has a
\* strictly greater start_char and a strictly greater end_char than the one
\* before it.
C11_OrderedByOffsets ==
    \A i \in 1..Len(ck.chunks) :
       /\ ck.chunks[i].chunk_index = i - 1
       /\ i < Len(ck.chunks) =>
             /\ ck.chunks[i + 1].start_char > ck.chunks[i].start_char
             /\ ck.chunks[i + 1].end_char > ck.chunks[i].end_char

\* C12: with overlap < target size, the ranges of two consecutive emitted
\* chunks overlap by at most the overlap: end_char of the earlier minus
\* start_char of the later is at most chunk_overlap.
C12_OverlapAtMost ==
    ck.chunk_overlap < ck.chunk_size
    => \A i \in 1..(Len(ck.chunks) - 1) :
          ck.chunks[i].end_char - ck.chunks[i + 1].start_char <= ck.chunk_overlap

\* create_chunks has returned two consecutive chunks that share exactly
\* chunk_overlap > 0 characters
C12_Witness ==
    /\ ck.pc = "done" /\ 0 < ck.chunk_overlap /\ ck.chunk_overlap < ck.chunk_size
    /\ \E i \in 1..(Len(ck.chunks) - 1) :
          ck.chunks[i].end_char - ck.chunks[i + 1].start_char = ck.chunk_overlap

\* C13: the snap looks only backward from the raw window end: every emitted
\* chunk ends at or before start_char + chunk_size, and a chunk that ends
\* before the raw window end ends just after the nearest sentence end within
\* the SearchWindow characters before the raw window end.
C13_SnapBackward ==
    \A i \in 1..Len(ck.chunks) :
       LET c == ck.chunks[i]
           raw == c.start_char + ck.chunk_size
       IN  /\ c.end_char <= raw
           /\ c.end_char < raw =>
                 /\ c.end_char - 1 >= Max(0, raw - SearchWindow)
                 /\ ck.full_text[c.end_char] \in SentenceEndings
                 /\ \A j \in c.end_char..(Min(raw, Len(ck.full_text)) - 1) :
                       ck.full_text[j + 1] \notin SentenceEndings

\* C14: the pages are concatenated in page-number order, each followed by a
\* line break, the range of a page is the range of its text and line break,
\* and every emitted chunk carries the page whose range holds the midpoint
\* start_char + (end_char - start_char) div 2 of its window, or the last page
\* when no range holds it.
C14_PageOfMidpoint ==
    ck.pc \in {"loop", "done", "repeating"} =>
       /\ \A n \in 1..Len(ck.page_texts) :
             /\ ck.page_char_ranges[n][1] =
                   (IF n = 1 THEN 0 ELSE ck.page_char_ranges[n - 1][2])
             /\ Slice(ck.full_text, ck.page_char_ranges[n][1], ck.page_char_ranges[n][2])
                   = ck.page_texts[n] \o <<"\n">>
       /\ \A i \in 1..Len(ck.chunks) :
             LET c == ck.chunks[i]
                 mid == c.start_char + ((c.end_char - c.start_char) \div 2)
                 owner == {n \in 1..Len(ck.page_texts) :
                              ck.page_char_ranges[n][1] <= mid
                              /\ mid < ck.page_char_ranges[n][2]}
             IN  IF owner = {} THEN c.page_number = Len(ck.page_texts)
                 ELSE c.page_number \in owner

\* create_chunks has returned a chunk whose midpoint lies in the first of two
\* pages and a chunk whose midpoint lies beyond the text
C14_Witness ==
    /\ ck.pc = "done" /\ Len(ck.page_texts) = 2
    /\ \E i \in 1..Len(ck.chunks) : ck.chunks[i].page_number = 1
    /\ \E i \in 1..Len(ck.chunks) :
          /\ ck.chunks[i].start_char + ((ck.chunks[i].end_char - ck.chunks[i].start_char) \div 2)
                >= Len(ck.full_text)
          /\ ck.chunks[i].page_number = 2

\* C15: no emitted chunk carries the page number of a page whose text is
\* empty, and when every page is empty create_chunks returns no chunk.
C15_EmptyPageNoChunk ==
    /\ \A i \in 1..Len(ck.chunks) : ck.page_texts[ck.chunks[i].page_number] # <<>>
    /\ (ck.pc = "done" /\ \A n \in 1..Len(ck.page_texts) : ck.page_texts[n] = <<>>)
          => ck.chunks = <<>>

\* C16: a call of add_embeddings appends the vectors in the order of the
\* dict it was given, gives the i-th chunk id the slot current_size + i,
\* where current_size is the size of the index it loaded, and writes back an
\* index grown by the number of vectors and a mapping that holds exactly the
\* entries it loaded plus the new slot -> chunk id entries.
C16_AddAppends ==
    [][\A p \in Pdfs :
          /\ (task[p].pc \in {"add_load_index", "add_load_metadata"}
              /\ task'[p].pc = "add_vector_ids") =>
                LET fm == metadata_files[get_user_metadata_path(Owner(p))]
                    old_index == IF task[p].pc = "add_load_metadata"
                                 THEN task[p].index ELSE <<>>
                    old_map == IF task[p].pc = "add_load_metadata" /\ fm.exists
                               THEN fm.map ELSE {}
                    ids == TaskChunkIds(p)
                    current_size == Len(old_index)
                IN  /\ Len(task'[p].index) = current_size + Len(ids)
                    /\ SubSeq(task'[p].index, 1, current_size) = old_index
                    /\ \A i \in 1..Len(ids) :
                          task'[p].index[current_size + i] =
                             [vec |-> Embed(task[p].texts[i]), of |-> ids[i]]
                    /\ task'[p].metadata =
                          old_map \cup {<<current_size + i - 1, ids[i]>> : i \in 1..Len(ids)}
          /\ (task[p].pc = "save_write_index" /\ task'[p].pc = "save_write_metadata") =>
                index_files'[get_user_index_path(Owner(p))] =
                   [exists |-> TRUE, vecs |-> task[p].index]
          /\ (task[p].pc = "save_write_metadata" /\ task'[p].pc = "task_completed") =>
                metadata_files'[get_user_metadata_path(Owner(p))] =
                   [exists |-> TRUE, map |-> task[p].metadata]
      ]_vars

\* slot s comes before slot t in the order by ascending squared distance to
\* q, the smaller slot first when the distances are equal
Nearer(index, q, s, t) ==
    \/ L2(index[s + 1].vec, q) < L2(index[t + 1].vec, q)
    \/ L2(index[s + 1].vec, q) = L2(index[t + 1].vec, q) /\ s < t

\* C17: a search returns at most min(k, index size) chunk ids, those of the
\* nearest slots in the order of ascending squared distance to the query,
\* the smaller slot first among equal distances, and the empty sequence when
\* the user has no index.
C17_SearchOrder ==
    srch.pc = "returned" =>
       LET n == Len(srch.index)
           all == 0..(n - 1)
       IN  /\ Len(srch.result) <= Min(srch.top_k, n)
           /\ n = 0 => srch.result = <<>>
           /\ Len(srch.slots) = Min(srch.top_k, n)
           /\ \A i \in 1..Len(srch.slots) :
                 /\ \A j \in (i + 1)..Len(srch.slots) :
                       Nearer(srch.index, srch.query, srch.slots[i], srch.slots[j])
                 /\ \A t \in all \ {srch.slots[j] : j \in 1..Len(srch.slots)} :
                       Nearer(srch.index, srch.query, srch.slots[i], t)
           /\ srch.result = MapSlots(srch.slots, srch.metadata)

\* C18: a search with k = 1 and exactly the vector of the chunk added last
\* returns that chunk's id first, whatever the index held before the add.
\* The chunk added last is the one at the last slot; the search has read the
\* persisted index and mapping as the add left them, nothing else runs, and
\* nothing was deleted, failed or killed.
C18_RoundTrip ==
    LET fi == index_files[get_user_index_path(srch.user)]
        fm == metadata_files[get_user_metadata_path(srch.user)]
        n == Len(srch.index)
    IN  ( /\ srch.pc = "returned" /\ srch.top_k = 1 /\ n > 0
          /\ Deletes = 0 /\ Faults = 0
          /\ \A p \in Pdfs : ~TaskRunning(p)
          /\ fi.exists /\ fi.vecs = srch.index
          /\ fm.exists /\ fm.map = srch.metadata
          /\ srch.metadata = {<<i - 1, srch.index[i].of>> : i \in 1..n}
          /\ srch.query = srch.index[n].vec )
        => /\ srch.result # <<>>
           /\ srch.result[1] = srch.index[n].of

\* C19: once delete_pdf of document d has completed, a search of d's owner
\* that reads the index and the mapping as they are persisted then returns no
\* chunk id of d, for every query vector and every k.
C19_DeleteThenSearch ==
    \A d \in Pdfs :
       LET fi == index_files[get_user_index_path(Owner(d))]
           fm == metadata_files[get_user_metadata_path(Owner(d))]
       IN  ( /\ del[d].pc = "done"
             /\ srch.pc = "returned" /\ srch.user = Owner(d)
             /\ srch.index = fi.vecs
             /\ srch.metadata = (IF fi.exists THEN fm.map ELSE {}) )
           => \A i \in 1..Len(srch.result) : PdfOf(srch.result[i]) # d

C21_LastDocumentRemovesIndex ==
    [][ /\ \A d \in Pdfs :
              (del[d].pc = "remove_metadata" /\ del'[d].pc = "delete_row") =>
                 /\ ~index_files'[get_user_index_path(Owner(d))].exists
                 /\ ~metadata_files'[get_user_metadata_path(Owner(d))].exists
        /\ (srch.pc = "idle" /\ srch'.pc = "loaded") =>
              /\ srch'.index = <<>> /\ srch'.metadata = {}
              /\ search_slots(srch'.index, 0, 1) = {<<>>}
        /\ \A p \in Pdfs :
              (task[p].pc = "add_load_index" /\ task'[p].pc = "add_vector_ids") =>
                 task'[p].metadata = {<<i - 1, ChunkId(p, i)>> : i \in 1..task[p].created}
      ]_vars

\* C22: in every state, every slot 0..size-1 of a user's persisted index
\* has exactly one entry in the user's persisted mapping, and the chunk it
\* maps to is stored and is owned by that user.
C22_EverySlotMapped ==
    \A u \in Users :
       LET fi == index_files[get_user_index_path(u)]
           fm == metadata_files[get_user_metadata_path(u)]
       IN  \A slot \in 0..(Len(fi.vecs) - 1) :
              /\ Cardinality({kv \in fm.map : kv[1] = slot}) = 1
              /\ \A kv \in fm.map :
                    kv[1] = slot => chunk_rows[kv[2]].exists /\ UserOf(kv[2]) = u

\* C23: a search never goes on with a loaded index whose mapping is missing
\* or has another size than the index: such a pair is refused on load.
C23_CorruptionDetected ==
    srch.pc \in {"loaded", "returned"} =>
       Cardinality(srch.metadata) = Len(srch.index)

\* C24: ask_question calls the generation collaborator exactly once when the
\* filtered, ordered chunk sequence is not empty and never when it is empty;
\* a search or a filter that leaves no chunk gets a fixed answer with empty
\* sources and chunk_ids.
C24_GenerationOnce ==
    ask.pc \in {"returned", "raised"} =>
       /\ ask.ordered_chunks # <<>> => ask.gen_calls = 1
       /\ ask.ordered_chunks = <<>> => ask.gen_calls = 0
       /\ (ask.pc = "returned" /\ ask.ordered_chunks = <<>>) =>
             /\ ask.response.answer \in {"no_information", "no_information_in_documents"}
             /\ ask.response.sources = <<>>
             /\ ask.response.chunk_ids = <<>>

\* the positions of the search result whose id is a row of the user's
\* chunks, of a document of the filter if one is given
KeptPositions(result, user_id, pdf_ids) ==
    {i \in 1..Len(result) :
        /\ chunk_rows[result[i]].exists
        /\ UserOf(result[i]) = user_id
        /\ pdf_ids # {} => PdfOf(result[i]) \in pdf_ids}

\* the k-th smallest position of a set of positions
KthOf(S, k) == CHOOSE i \in S : Cardinality({j \in S : j <= i}) = k

\* C25 as stated: the chunk_ids answer returns are the ids of the search
\* result that were read from the table as the user's chunks, in the search
\* result's order.
C25_ReturnsHydrated ==
    ask.pc = "returned" => ask.response.chunk_ids = ask.ordered_chunks

\* C25 amended: the step that reads the chunks keeps exactly the ids of the
\* search result that are rows of the user's chunks (of the filter's documents
\* if a filter is given), in the search result's order; when the answer is
\* generated the response's chunk_ids and sources are that sequence, and when
\* the generation fails both are empty.
C25_OrderOfSearch ==
    [][/\ (ask.pc = "search" /\ srch.pc = "returned" /\ srch.result # <<>>
           /\ ask'.pc \in {"context", "returned"}) =>
             LET kept == KeptPositions(srch.result, ask.user, ask.pdf_ids)
             IN  /\ ask'.chunk_ids = srch.result
                 /\ Len(ask'.ordered_chunks) = Cardinality(kept)
                 /\ \A k \in 1..Cardinality(kept) :
                       ask'.ordered_chunks[k] = srch.result[KthOf(kept, k)]
       /\ (ask.pc = "generate" /\ ask'.pc # "generate") =>
             /\ ask'.ordered_chunks = ask.ordered_chunks
             /\ IF ask'.response.answer = "generated"
                THEN /\ ask'.response.chunk_ids = ask.ordered_chunks
                     /\ ask'.response.sources = ask.ordered_chunks
                ELSE /\ ask'.response.chunk_ids = <<>>
                     /\ ask'.response.sources = <<>>]_vars

\* an answer was generated from two chunks that the search gave in an order
\* other than the table's, and a search result lost an id in the filter
C25_Witness ==
    /\ ask.pc = "returned" /\ ask.response.answer = "generated"
    /\ Len(ask.response.chunk_ids) = 2
    /\ ask.response.chunk_ids[1] > ask.response.chunk_ids[2]

\* C26: when the generation collaborator fails, ask_question does not raise;
\* it returns the error text as the answer, appends no message to the
\* session and leaves the session's updated_at as it was.
C26_FailureNotRecorded ==
    ask.response.answer = "error" =>
       /\ ask.pc = "returned"
       /\ ask.gen_calls = 1
       /\ chat.messages = <<>>
       /\ chat.session.updated_at = 0

\* the generation failed in a request that named a session that is still there
C26_Witness ==
    /\ ask.pc = "returned" /\ ask.response.answer = "error"
    /\ ask.session_id # 0 /\ chat.session.exists

\* the two messages of one question and its answer
Transcript(chunk_ids) ==
    <<[role |-> "user", content |-> "question", chunk_ids |-> <<>>],
      [role |-> "assistant", content |-> "generated", chunk_ids |-> chunk_ids]>>

\* C27 as stated: a request with a session_id appends the user message and
\* the assistant message to the session and touches its updated_at.
C27_SessionAlwaysRecorded ==
    (ask.pc = "returned" /\ ask.session_id # 0 /\ chat.session.exists) =>
       /\ Len(chat.messages) = 2
       /\ chat.session.updated_at = 1

\* C27 amended: when a request with a session_id returns a generated answer
\* and the session is still there, the session has got exactly the user
\* message with the question followed by the assistant message with the
\* answer, tagged with the chunk_ids of the response, and its updated_at is
\* touched; a request without session_id, one that returns one of the fixed
\* answers and one whose generation failed append nothing.
C27_RecordedWhenGenerated ==
    ask.pc = "returned" =>
       IF ask.session_id # 0 /\ ask.response.answer = "generated" /\ chat.session.exists
       THEN /\ chat.messages = Transcript(ask.response.chunk_ids)
            /\ chat.session.updated_at = 1
       ELSE /\ chat.messages = <<>>
            /\ chat.session.updated_at = 0

\* a generated answer was recorded in the session
C27_Witness ==
    /\ ask.pc = "returned" /\ ask.session_id # 0
    /\ ask.response.answer = "generated" /\ chat.session.exists
    /\ Len(chat.messages) = 2

\* C28: no step of ask_question (its search included), of generate_summary or
\* of generate_mindmap changes an index file, a mapping file, a chunk row or
\* a document row, whatever the request's outcome.
C28_RequestsReadOnly ==
    [][(ask' # ask \/ gen' # gen \/ srch' # srch) =>
          UNCHANGED <<pdf_files, chunk_rows, index_files, metadata_files>>]_vars

\* an answer was generated for a user whose index file and mapping file are
\* there
C28_Witness ==
    /\ ask.pc = "returned" /\ ask.response.answer = "generated"
    /\ index_files[get_user_index_path(ask.user)].exists
    /\ metadata_files[get_user_metadata_path(ask.user)].exists

\* C29: for a document with chunks, generate_summary and generate_mindmap
\* make one generation call with the joined chunks and return the
\* collaborator's text when it answers; without chunks they make no call.
C29_OneGenerationCall ==
    gen.pc = "returned" =>
       /\ gen.chunks # <<>> => gen.gen_calls = 1
       /\ gen.chunks = <<>> => gen.gen_calls = 0

\* C30: a failure of the generation collaborator in generate_summary or
\* generate_mindmap reaches the caller as a failure, not as a result.
C30_FailurePropagated ==
    gen.pc = "returned" => gen.result \notin {"error_text", "error_dict"}

\* C31: generate_embeddings_batch gives one vector per text in the order of
\* the texts, and embed_chunks pairs every chunk id given with the embedding
\* of that chunk's own text, one entry per chunk; when the collaborator
\* raises, the call raises and hands no vector on.
C31_EmbedKeepsOrder ==
    [][\A p \in Pdfs :
          /\ (del[p].pc = "query" /\ del'[p].pc = "write_index") =>
                LET ids == RemainingChunks(p)
                    items == del'[p].remaining
                IN  /\ Len(items) = Len(ids)
                    /\ \A i \in 1..Len(ids) :
                          /\ items[i].id = ids[i]
                          /\ items[i].vec = Embed(chunk_rows[ids[i]].text)
                    /\ \A i \in 1..Len(ids), j \in 1..Len(ids) :
                          i # j => items[i].id # items[j].id
          /\ (del[p].pc = "query" /\ del'[p].pc = "error") =>
                /\ del'[p].remaining = <<>>
                /\ UNCHANGED <<index_files, metadata_files>>
          /\ (task[p].pc = "processed" /\ task'[p].pc = "add_load_index") =>
                LET items == TaskItems(p)'
                IN  /\ Len(items) = task[p].created
                    /\ \A i \in 1..Len(items) :
                          /\ items[i].id = ChunkId(p, i)
                          /\ items[i].vec = Embed(task[p].texts[i])
          /\ (task[p].pc = "processed" /\ task'[p].exc = "embed") =>
                /\ task'[p].pc = "except_task"
                /\ task'[p].add_calls = 0
                /\ UNCHANGED <<index_files, metadata_files>>]_vars

\* a rebuild holds the embeddings of two chunks with different texts
C31_Witness ==
    \E p \in Pdfs :
       /\ del[p].pc = "write_index"
       /\ Len(del[p].remaining) = 2
       /\ del[p].remaining[1].vec # del[p].remaining[2].vec

\* C32: an add, a rebuild or a search for one user reads and writes only that
\* user's index file and mapping file; the files of every other user are left
\* as they are, in every interleaving.
C32_OwnFilesOnly ==
    [][/\ \A u \in Users :
            (index_files'[u] # index_files[u] \/ metadata_files'[u] # metadata_files[u]) =>
               \E p \in Pdfs : /\ Owner(p) = u
                               /\ (task'[p] # task[p] \/ del'[p] # del[p])
       /\ \A p \in Pdfs :
            (task[p].pc = "add_load_index" /\ task'[p].pc = "add_load_metadata") =>
               task'[p].index = index_files[Owner(p)].vecs
       /\ (srch.pc = "idle" /\ srch'.pc # "idle") =>
            srch'.index = index_files[srch'.user].vecs
       /\ (srch.pc = "load_metadata" /\ srch'.pc = "loaded") =>
            srch'.metadata = metadata_files[srch.user].map]_vars

\* one user's rebuild has finished while the other user's index and mapping
\* hold vectors
C32_Witness ==
    \E p \in Pdfs, u \in Users :
       /\ u # Owner(p)
       /\ del[p].pc = "done"
       /\ index_files[u].exists /\ Len(index_files[u].vecs) > 0
       /\ metadata_files[u].exists

\* C33: the chunk_ids answer returns never hold the same chunk id twice, also
\* when the rebuild of a deletion overlaps the ingestion of another document
\* of the same user.
C33_ResponseDistinct ==
    ask.pc = "returned" =>
       \A i \in 1..Len(ask.response.chunk_ids), j \in 1..Len(ask.response.chunk_ids) :
          i # j => ask.response.chunk_ids[i] # ask.response.chunk_ids[j]

\* C34: when a document is deleted while its own ingestion task runs, then
\* once the delete request and the task have both finished no slot of the
\* owner's mapping holds a chunk of that document.
C34_DeletedLeavesIndex ==
    \A d \in Pdfs :
       ( /\ del[d].pc = "done"
         /\ task[d].pc \in {"returned", "returned_empty", "raised"}
         /\ \A p \in Pdfs \ {d} : task[p].pc \in {"absent", "queued"} )
       => \A kv \in metadata_files[get_user_metadata_path(Owner(d))].map :
             PdfOf(kv[2]) # d

\* C35: the chunks of a document whose ingestion ended in failed because the
\* embedding raised are in no slot of the owner's index or mapping, whatever
\* happens later, the deletion of another document of the same user included.
C35_FailedNotIndexed ==
    \A p \in Pdfs :
       ( /\ pdf_files[p].exists /\ pdf_files[p].status = "failed"
         /\ task[p].pc = "raised" /\ task[p].exc = "embed" )
       => /\ \A kv \in metadata_files[get_user_metadata_path(Owner(p))].map :
                PdfOf(kv[2]) # p
          /\ \A i \in 1..Len(index_files[get_user_index_path(Owner(p))].vecs) :
                PdfOf(index_files[get_user_index_path(Owner(p))].vecs[i].of) # p

\* C36: when every ingestion task has returned without failure and no
\* rebuild is under way, every chunk that one slot of its owner's mapping
\* names has that slot as its vector_id.
C36_VectorIdIsSlot ==
    (\A p \in Pdfs : /\ task[p].pc \in {"absent", "returned"} /\ task[p].exc = "none"
                     /\ ~DelRunning(p)) =>
       \A u \in Users :
          LET map == metadata_files[get_user_metadata_path(u)].map
          IN  (\A kv \in map, kw \in map : kv[2] = kw[2] => kv[1] = kw[1]) =>
                 \A kv \in map :
                    chunk_rows[kv[2]].exists => chunk_rows[kv[2]].vector_id = kv[1]

\* C37: every chunk create_chunks emits has 0 <= start_char < end_char <=
\* the length of the joined text, and its text is the stripped slice of the
\* joined text from start_char to end_char.
C37_OffsetsInsideText ==
    ck.pc \in {"loop", "done", "repeating"} =>
       \A i \in 1..Len(ck.chunks) :
          /\ 0 <= ck.chunks[i].start_char
          /\ ck.chunks[i].start_char < ck.chunks[i].end_char
          /\ ck.chunks[i].end_char <= Len(ck.full_text)
          /\ ck.chunks[i].text =
                Strip(Slice(ck.full_text, ck.chunks[i].start_char, ck.chunks[i].end_char))

\* the chunks of the documents of pdf_ids that a slot of the user's mapping names
IndexedOf(u, pdf_ids) ==
    {kv[2] : kv \in {kw \in metadata_files[get_user_metadata_path(u)].map :
                        PdfOf(kw[2]) \in pdf_ids /\ chunk_rows[kw[2]].exists}}

C39_PairsNotSeparated ==
    \A i \in 1..(Len(chat.messages) - 1) :
       chat.messages[i].role = "user" =>
          /\ chat.messages[i + 1].role = "assistant"
          /\ (chat.messages[i].content = "question2")
                <=> (chat.messages[i + 1].content = "generated2")

\* C40: when the ingestion task of an existing document has ended, every
\* collaborator call having returned or raised and no worker having been
\* killed, the document's status is completed or failed; it is not left in
\* pending or processing.
C40_EndsTerminal ==
    \A p \in Pdfs :
       (task[p].pc \in {"returned", "returned_empty", "raised"} /\ pdf_files[p].exists)
       => pdf_files[p].status \in {"completed", "failed"}

====
